---- MODULE Spec2Model ----
(***************************************************************************)
(* Model of backend/open_webui/routers/tools.py: the tool router of the    *)
(* chat application.  The persisted tool store, the loaded-module cache    *)
(* app.state.TOOLS and the remote tool-server cache app.state.TOOL_SERVERS *)
(* are the state.  The handlers that read or write them (catalog listing,  *)
(* create, get, update, delete, valves spec and valves update) are one     *)
(* action each.  The only one with an await is get_tools (the remote       *)
(* fetch), which is therefore split at the await.                          *)
(***************************************************************************)
EXTENDS Integers, Sequences, FiniteSets, TLC

VARIABLES
    store,                    \* Tools table: tool id -> persisted record
    TOOLS,                    \* request.app.state.TOOLS: tool id -> loaded module
    last,                     \* response of the latest CRUD / valve request
    TOOL_SERVERS,             \* request.app.state.TOOL_SERVERS
    TOOL_SERVER_CONNECTIONS,  \* request.app.state.config.TOOL_SERVER_CONNECTIONS
    ARCADE_TOOLS_CONFIG,      \* request.app.state.config.ARCADE_TOOLS_CONFIG
    inflight,                 \* callers of get_tools suspended at the await
    fetches,                  \* number of get_tool_servers_data calls so far
    listing                   \* response of the latest completed get_tools

vars == <<store, TOOLS, last, TOOL_SERVERS, TOOL_SERVER_CONNECTIONS,
          ARCADE_TOOLS_CONFIG, inflight, fetches, listing>>

crudVars == <<store, TOOLS, last>>

catalogVars == <<TOOL_SERVERS, TOOL_SERVER_CONNECTIONS, ARCADE_TOOLS_CONFIG,
                 inflight, fetches, listing>>

----------------------------------------------------------------------------
(* Values *)

\* Python's None
None == [none |-> TRUE]

Users == {"u1", "u2", "root"}

role(user) == IF user = "root" THEN "admin" ELSE "user"

\* request.app.state.config.USER_PERMISSIONS: who holds workspace.tools
USER_PERMISSIONS == [workspace_tools |-> {"u1"}]

Lowercase == {"a", "b"}
Uppercase == {"A", "B"}
Digits == {"0", "1"}

\* ids a client submits to POST /create
FormIds == { <<"a">>, <<"A">>, <<"1", "b">>, <<"a", "!">> }

\* ids a client puts in the path of /id/{id}/...
PathIds == { <<"a">>, <<"A">> }

\* access_control values: None, or an allow-list per access type
ACValues == { None,
              [read |-> {"u2"}, write |-> {}],
              [read |-> {}, write |-> {"u2"}] }

\* tool sources a client submits: one that loads, one that declares Valves,
\* one with pre-rewrite imports, one that does not compile, one whose
\* callables cannot be reflected into specs
FormContents == {"good", "valves", "legacy", "syntaxerr", "nospecs"}

\* valve payloads: dicts over the single key "k"
Payloads == { {}, {<<"k", "x">>}, {<<"k", "null">>}, {<<"k", "bad">>} }

----------------------------------------------------------------------------
(* Collaborators called by the router *)

\* variant of isidentifier that looks at the first character only
isidentifier_head(s) ==
    /\ Len(s) > 0
    /\ s[1] \in Lowercase \cup Uppercase \cup {"_"}

\* str.isidentifier()
isidentifier(s) ==
    /\ Len(s) > 0
    /\ s[1] \in Lowercase \cup Uppercase \cup {"_"}
    /\ \A i \in 1..Len(s) : s[i] \in Lowercase \cup Uppercase \cup Digits \cup {"_"}

lower_char(c) ==
    CASE c = "A" -> "a"
      [] c = "B" -> "b"
      [] OTHER -> c

\* str.lower()
lower(s) == [i \in 1..Len(s) |-> lower_char(s[i])]

\* open_webui.utils.access_control.has_access
has_access(user_id, type, access_control) ==
    IF access_control = None
    THEN type = "read"
    ELSE user_id \in access_control[type]

\* open_webui.utils.access_control.has_permission
has_permission(user_id, permission_key, permissions) ==
    user_id \in permissions[permission_key]

\* open_webui.utils.plugin.replace_imports
replace_imports(content) == IF content = "legacy" THEN "good" ELSE content

\* open_webui.utils.plugin.load_tools_module_by_id with content given
load_tools_module_by_id(id, content) ==
    IF content \in {"syntaxerr", "legacy"}
    THEN [ok |-> FALSE, module |-> None, frontmatter |-> None]
    ELSE [ok |-> TRUE,
          module |-> [src |-> content, Valves |-> (content = "valves")],
          frontmatter |-> [manifest |-> content]]

\* open_webui.utils.tools.get_tools_specs
get_tools_specs(module) ==
    IF module.src = "nospecs"
    THEN [ok |-> FALSE, specs |-> <<>>]
    ELSE [ok |-> TRUE, specs |-> <<module.src>>]

\* Tools.get_tool_by_id
get_tool_by_id(st, id) == IF id \in DOMAIN st THEN st[id] ELSE None

\* Tools.insert_new_tool: the new table, or the old one when the write fails
insert_new_tool(st, user_id, id, content, access_control, manifest, specs, dbOk) ==
    IF dbOk /\ id \notin DOMAIN st
    THEN [x \in DOMAIN st \cup {id} |->
            IF x = id
            THEN [user_id |-> user_id, content |-> content,
                  access_control |-> access_control, manifest |-> manifest,
                  specs |-> specs, valves |-> [set |-> FALSE, data |-> {}]]
            ELSE st[x]]
    ELSE st

\* Tools.update_tool_by_id
update_tool_by_id(st, id, content, access_control, manifest, specs, dbOk) ==
    IF dbOk /\ id \in DOMAIN st
    THEN [st EXCEPT ![id] = [@ EXCEPT !.content = content,
                                      !.access_control = access_control,
                                      !.manifest = manifest,
                                      !.specs = specs]]
    ELSE st

\* Tools.delete_tool_by_id
delete_tool_by_id(st, id, dbOk) ==
    IF dbOk THEN [x \in DOMAIN st \ {id} |-> st[x]] ELSE st

\* Tools.update_tool_valves_by_id
update_tool_valves_by_id(st, id, data, dbOk) ==
    IF dbOk /\ id \in DOMAIN st
    THEN [st EXCEPT ![id].valves = [set |-> TRUE, data |-> data]]
    ELSE st

Response(op, caller, id, status, detail, body) ==
    [op |-> op, caller |-> caller, id |-> id, status |-> status,
     detail |-> detail, body |-> body]

Outcome(st, cache, resp) == [store |-> st, TOOLS |-> cache, resp |-> resp]

\* TOOLS[id] = tools_module
cache_put(cache, id, module) ==
    [x \in DOMAIN cache \cup {id} |-> IF x = id THEN module ELSE cache[x]]

\* del TOOLS[id]
cache_del(cache, id) == [x \in DOMAIN cache \ {id} |-> cache[x]]

----------------------------------------------------------------------------
(* Route handlers on the tool store.  Each returns the store and the module *)
(* cache after the request, and the response.                              *)

\* variant of create_new_tools that inserts the record before the specs are
\* derived
create_new_tools_persist_first(st, cache, user, form_id, content, access_control, dbOk) ==
    LET id     == lower(form_id)
        src    == replace_imports(content)
        loaded == load_tools_module_by_id(id, src)
        cache1 == cache_put(cache, id, loaded.module)
        st1    == insert_new_tool(st, user, id, src, access_control,
                                  loaded.frontmatter, <<>>, dbOk)
        specs  == get_tools_specs(cache1[id])
    IN  IF role(user) # "admin"
           /\ ~has_permission(user, "workspace_tools", USER_PERMISSIONS)
        THEN Outcome(st, cache,
                     Response("create", user, form_id, 401, "UNAUTHORIZED", "none"))
        ELSE IF ~isidentifier(form_id)
        THEN Outcome(st, cache,
                     Response("create", user, form_id, 400, "BAD_ID", "none"))
        ELSE IF get_tool_by_id(st, id) # None
        THEN Outcome(st, cache,
                     Response("create", user, form_id, 400, "ID_TAKEN", "none"))
        ELSE IF ~loaded.ok
        THEN Outcome(st, cache,
                     Response("create", user, form_id, 400, "LOAD", "none"))
        ELSE IF ~specs.ok
        THEN Outcome(st1, cache1,
                     Response("create", user, form_id, 400, "SPECS", "none"))
        ELSE IF get_tool_by_id(st1, id) = None \/ ~dbOk
        THEN Outcome(st1, cache1,
                     Response("create", user, form_id, 400, "WRITE", "none"))
        ELSE Outcome(st1, cache1,
                     Response("create", user, form_id, 200, "", "record"))

\* POST /create
create_new_tools(st, cache, user, form_id, content, access_control, dbOk) ==
    LET id     == lower(form_id)
        src    == replace_imports(content)
        loaded == load_tools_module_by_id(id, src)
        cache1 == cache_put(cache, id, loaded.module)
        specs  == get_tools_specs(cache1[id])
        st1    == insert_new_tool(st, user, id, src, access_control,
                                  loaded.frontmatter, specs.specs, dbOk)
    IN  IF role(user) # "admin"
           /\ ~has_permission(user, "workspace_tools", USER_PERMISSIONS)
        THEN Outcome(st, cache,
                     Response("create", user, form_id, 401, "UNAUTHORIZED", "none"))
        ELSE IF ~isidentifier(form_id)
        THEN Outcome(st, cache,
                     Response("create", user, form_id, 400, "BAD_ID", "none"))
        ELSE IF get_tool_by_id(st, id) # None
        THEN Outcome(st, cache,
                     Response("create", user, form_id, 400, "ID_TAKEN", "none"))
        ELSE IF ~loaded.ok
        THEN Outcome(st, cache,
                     Response("create", user, form_id, 400, "LOAD", "none"))
        ELSE IF ~specs.ok
        THEN Outcome(st, cache1,
                     Response("create", user, form_id, 400, "SPECS", "none"))
        ELSE IF get_tool_by_id(st1, id) = None \/ ~dbOk
        THEN Outcome(st1, cache1,
                     Response("create", user, form_id, 400, "WRITE", "none"))
        ELSE Outcome(st1, cache1,
                     Response("create", user, form_id, 200, "", "record"))

\* GET /id/{id}
get_tools_by_id(st, cache, user, id) ==
    LET tools == get_tool_by_id(st, id)
    IN  IF tools # None
        THEN IF \/ role(user) = "admin"
                \/ tools.user_id = user
                \/ has_access(user, "read", tools.access_control)
             THEN Outcome(st, cache, Response("get", user, id, 200, "", "record"))
             ELSE Outcome(st, cache, Response("get", user, id, 200, "", "null"))
        ELSE Outcome(st, cache, Response("get", user, id, 401, "NOT_FOUND", "none"))

\* variant of write_denied that asks for the read grant
write_denied_read(tools, user) ==
    /\ tools.user_id # user
    /\ ~has_access(user, "read", tools.access_control)
    /\ role(user) # "admin"

\* the owner / write-grant / admin test of update, delete and valves update
write_denied(tools, user) ==
    /\ tools.user_id # user
    /\ ~has_access(user, "write", tools.access_control)
    /\ role(user) # "admin"

\* POST /id/{id}/update
update_tools_by_id(st, cache, user, id, content, access_control, dbOk) ==
    LET tools  == get_tool_by_id(st, id)
        src    == replace_imports(content)
        loaded == load_tools_module_by_id(id, src)
        cache1 == cache_put(cache, id, loaded.module)
        specs  == get_tools_specs(cache1[id])
        st1    == update_tool_by_id(st, id, src, access_control,
                                    loaded.frontmatter, specs.specs, dbOk)
    IN  IF tools = None
        THEN Outcome(st, cache,
                     Response("update", user, id, 401, "NOT_FOUND", "none"))
        ELSE IF write_denied(tools, user)
        THEN Outcome(st, cache,
                     Response("update", user, id, 401, "UNAUTHORIZED", "none"))
        ELSE IF ~loaded.ok
        THEN Outcome(st, cache,
                     Response("update", user, id, 400, "LOAD", "none"))
        ELSE IF ~specs.ok
        THEN Outcome(st, cache1,
                     Response("update", user, id, 400, "SPECS", "none"))
        ELSE IF ~dbOk
        THEN Outcome(st1, cache1,
                     Response("update", user, id, 400, "WRITE", "none"))
        ELSE Outcome(st1, cache1,
                     Response("update", user, id, 200, "", "record"))

\* variant of delete_tools_by_id that answers true whatever the store said
delete_tools_by_id_always_true(st, cache, user, id, dbOk) ==
    LET tools  == get_tool_by_id(st, id)
        st1    == delete_tool_by_id(st, id, dbOk)
    IN  IF tools = None
        THEN Outcome(st, cache,
                     Response("delete", user, id, 401, "NOT_FOUND", "none"))
        ELSE IF write_denied(tools, user)
        THEN Outcome(st, cache,
                     Response("delete", user, id, 401, "UNAUTHORIZED", "none"))
        ELSE Outcome(st1, IF id \in DOMAIN cache THEN cache_del(cache, id) ELSE cache,
                     Response("delete", user, id, 200, "", "true"))

\* DELETE /id/{id}/delete
delete_tools_by_id(st, cache, user, id, dbOk) ==
    LET tools  == get_tool_by_id(st, id)
        st1    == delete_tool_by_id(st, id, dbOk)
        result == dbOk
    IN  IF tools = None
        THEN Outcome(st, cache,
                     Response("delete", user, id, 401, "NOT_FOUND", "none"))
        ELSE IF write_denied(tools, user)
        THEN Outcome(st, cache,
                     Response("delete", user, id, 401, "UNAUTHORIZED", "none"))
        ELSE IF result
        THEN Outcome(st1, IF id \in DOMAIN cache THEN cache_del(cache, id) ELSE cache,
                     Response("delete", user, id, 200, "", "true"))
        ELSE Outcome(st1, cache,
                     Response("delete", user, id, 200, "", "false"))

\* the module of a stored tool: TOOLS[id], loaded from the store on a miss
cached_module(st, cache, id) ==
    IF id \in DOMAIN cache
    THEN cache
    ELSE cache_put(cache, id, load_tools_module_by_id(id, st[id].content).module)

\* GET /id/{id}/valves/spec
get_tools_valves_spec_by_id(st, cache, user, id) ==
    LET tools  == get_tool_by_id(st, id)
        cache1 == cached_module(st, cache, id)
    IN  IF tools # None
        THEN IF cache1[id].Valves
             THEN Outcome(st, cache1,
                          Response("valves_spec", user, id, 200, "", "dict"))
             ELSE Outcome(st, cache1,
                          Response("valves_spec", user, id, 200, "", "null"))
        ELSE Outcome(st, cache,
                     Response("valves_spec", user, id, 401, "NOT_FOUND", "none"))

\* POST /id/{id}/valves/update
update_tools_valves_by_id(st, cache, user, id, form_data, dbOk) ==
    LET tools    == get_tool_by_id(st, id)
        cache1   == cached_module(st, cache, id)
        stripped == {kv \in form_data : kv[2] # "null"}
        st1      == update_tool_valves_by_id(st, id, stripped, dbOk)
    IN  IF tools = None
        THEN Outcome(st, cache,
                     Response("valves_update", user, id, 401, "NOT_FOUND", "none"))
        ELSE IF write_denied(tools, user)
        THEN Outcome(st, cache,
                     Response("valves_update", user, id, 400, "ACCESS_PROHIBITED", "none"))
        ELSE IF ~cache1[id].Valves
        THEN Outcome(st, cache1,
                     Response("valves_update", user, id, 401, "NOT_FOUND", "none"))
        ELSE IF \E kv \in stripped : kv[2] = "bad"
        THEN Outcome(st, cache1,
                     Response("valves_update", user, id, 400, "VALIDATION", "none"))
        ELSE Outcome(st1, cache1,
                     Response("valves_update", user, id, 200, "", "dict"))

----------------------------------------------------------------------------
(* GET / : the merged catalog *)

Digit(i) == ToString(i)

RECURSIVE Str(_)
\* the text of an id kept as a sequence of characters
Str(s) == IF s = <<>> THEN "" ELSE Head(s) \o Str(Tail(s))

NullUrl == "null"

\* request.app.state.ARCADE_TOOLS: the broker's tool metadata
ARCADE_TOOLS ==
    << [qualified_name |-> "Gmail.Send",
        requirements |-> [authorization |->
            [id |-> "", provider_id |-> "google", provider_type |-> "oauth2",
             oauth2 |-> [scopes |-> {"mail.send"}]]]],
       [qualified_name |-> "Gmail.Read",
        requirements |-> [authorization |->
            [id |-> "gmail", provider_id |-> "", provider_type |-> "oauth2",
             oauth2 |-> [scopes |-> {"mail.read"}]]]],
       [qualified_name |-> "Notes.Sync",
        requirements |-> [authorization |->
            [id |-> "", provider_id |-> "", provider_type |-> "oauth2",
             oauth2 |-> None]]],
       [qualified_name |-> "Math.Add", requirements |-> None] >>

\* lines 77-79: arcade_tool_mapper
arcade_tool_mapper ==
    [name \in {ARCADE_TOOLS[i].qualified_name : i \in 1..Len(ARCADE_TOOLS)} |->
        (CHOOSE t \in {ARCADE_TOOLS[i] : i \in 1..Len(ARCADE_TOOLS)} :
            t.qualified_name = name)]

\* toolkits an administrator may configure
GmailKit == [toolkit |-> "Gmail", description |-> "mail", enabled |-> TRUE,
             tools |-> <<"Gmail.Send", "Gmail.Read">>]
NotesKit == [toolkit |-> "Notes", description |-> "notes", enabled |-> TRUE,
             tools |-> <<"Notes.Sync", "Math.Add">>]
MathKit  == [toolkit |-> "Math", description |-> "sums", enabled |-> TRUE,
             tools |-> <<"Math.Add">>]
OffKit   == [toolkit |-> "Gmail", description |-> "mail", enabled |-> FALSE,
             tools |-> <<"Gmail.Send">>]
StaleKit == [toolkit |-> "Stale", description |-> "gone", enabled |-> TRUE,
             tools |-> <<"Gone.Tool">>]

\* what client.auth.authorize may answer
BrokerResults == { None,
                   [status |-> "completed", url |-> NullUrl],
                   [status |-> "pending", url |-> "https://auth"] }

\* open_webui.utils.tools.get_tool_servers_data: one entry, carrying the
\* connection's index, for every connection whose document could be fetched
get_tool_servers_data(connections, reachable) ==
    LET F[i \in 0..Len(connections)] ==
            IF i = 0 THEN <<>>
            ELSE IF (i - 1) \in reachable
                 THEN Append(F[i - 1], [idx |-> i - 1,
                                        openapi |-> [title |-> "Tool Server"]])
                 ELSE F[i - 1]
    IN  F[Len(connections)]

RECURSIVE get_tools_list(_)
\* Tools.get_tools as listing entries
get_tools_list(st) ==
    IF DOMAIN st = {} THEN <<>>
    ELSE LET id == CHOOSE x \in DOMAIN st :
                      \A y \in DOMAIN st : Len(x) <= Len(y)
         IN  <<[id |-> Str(id), user_id |-> st[id].user_id,
                name |-> Str(id), meta |-> [description |-> ""],
                access_control |-> st[id].access_control]>>
             \o get_tools_list([x \in DOMAIN st \ {id} |-> st[x]])

\* lines 48-71: one entry per cached server
server_entries(servers, connections) ==
    [k \in 1..Len(servers) |->
        [id |-> "server:" \o Digit(servers[k].idx),
         user_id |-> "server:" \o Digit(servers[k].idx),
         name |-> servers[k].openapi.title,
         meta |-> [description |-> ""],
         access_control |-> connections[k].config.access_control]]

NoAuth == [scopes |-> {}, auth_id |-> "", auth_provider_id |-> "",
           auth_provider_type |-> "", key_error |-> FALSE]

RECURSIVE collect_authorization(_, _)
\* lines 89-99: scopes and the first non-empty identity over a kit's tools
collect_authorization(names, acc) ==
    IF names = <<>> \/ acc.key_error THEN acc
    ELSE IF Head(names) \notin DOMAIN arcade_tool_mapper
    THEN [acc EXCEPT !.key_error = TRUE]
    ELSE LET requirements == arcade_tool_mapper[Head(names)].requirements
             acc1 ==
                 IF requirements # None /\ requirements.authorization # None
                 THEN LET auth == requirements.authorization
                      IN  [scopes |-> acc.scopes \cup
                               (IF auth.oauth2 # None THEN auth.oauth2.scopes ELSE {}),
                           auth_id |-> IF acc.auth_id # "" THEN acc.auth_id
                                       ELSE auth.id,
                           auth_provider_id |->
                               IF acc.auth_provider_id # "" THEN acc.auth_provider_id
                               ELSE auth.provider_id,
                           auth_provider_type |->
                               IF acc.auth_provider_type # "" THEN acc.auth_provider_type
                               ELSE auth.provider_type,
                           key_error |-> FALSE]
                 ELSE acc
         IN  collect_authorization(Tail(names), acc1)

\* lines 116-151: the entry of an enabled toolkit
arcade_entry(idx, tool_kit, auth_result) ==
    IF auth_result # None
    THEN [id |-> "arcade:" \o Digit(idx),
          user_id |-> "arcade:" \o Digit(idx),
          name |-> tool_kit.toolkit,
          meta |-> [description |-> tool_kit.description,
                    auth_completed |-> (auth_result.status = "completed"),
                    auth_url |-> auth_result.url],
          access_control |-> None]
    ELSE [id |-> "arcade:" \o Digit(idx),
          user_id |-> "arcade:" \o Digit(idx),
          name |-> tool_kit.toolkit,
          meta |-> [description |-> tool_kit.description,
                    auth_completed |-> TRUE,
                    auth_url |-> NullUrl],
          access_control |-> None]

\* variant of must_authorize that calls the broker for every enabled toolkit
must_authorize_always(auth) == TRUE

\* line 101: the broker is asked only when a provider id and type were found
must_authorize(auth) == auth.auth_provider_id # "" /\ auth.auth_provider_type # ""

RECURSIVE arcade_entries(_, _, _, _, _)
\* lines 81-151: the loop over ARCADE_TOOLS_CONFIG, from position k on;
\* broker[k] is what authorize answers for the toolkit at position k
arcade_entries(k, config, user, broker, acc) ==
    IF k > Len(config) \/ acc.key_error THEN acc
    ELSE LET idx      == k - 1
             tool_kit == config[k]
             auth     == collect_authorization(tool_kit.tools, NoAuth)
             called   == must_authorize(auth)
             auth_requirement ==
                 [provider_id |-> auth.auth_provider_id,
                  provider_type |-> auth.auth_provider_type,
                  oauth2 |-> [scopes |-> auth.scopes],
                  id |-> auth.auth_id]
             auth_result == IF called THEN broker[k] ELSE None
         IN  IF ~tool_kit.enabled
             THEN arcade_entries(k + 1, config, user, broker, acc)
             ELSE IF auth.key_error
             THEN [acc EXCEPT !.key_error = TRUE]
             ELSE arcade_entries(k + 1, config, user, broker,
                    [entries |-> Append(acc.entries,
                                        arcade_entry(idx, tool_kit, auth_result)),
                     calls |-> IF called
                               THEN Append(acc.calls,
                                           [idx |-> idx, user_id |-> user,
                                            auth_requirement |-> auth_requirement,
                                            result |-> auth_result])
                               ELSE acc.calls,
                     key_error |-> FALSE])

\* variant of visible_tools that returns the merged list to everyone
visible_tools_unfiltered(tools, user) == tools

\* lines 153-159: the filter for callers that are not admin
visible_tools(tools, user) ==
    IF role(user) # "admin"
    THEN SelectSeq(tools, LAMBDA tool :
                     \/ tool.user_id = user
                     \/ has_access(user, "read", tool.access_control))
    ELSE tools

\* lines 47-161 of get_tools: the response built from the cached servers
get_tools(st, servers, connections, config, user, broker) ==
    LET arcade == arcade_entries(1, config, user, broker,
                                 [entries |-> <<>>, calls |-> <<>>,
                                  key_error |-> FALSE])
        tools  == get_tools_list(st) \o server_entries(servers, connections)
                  \o arcade.entries
    IN  IF arcade.key_error
        THEN [caller |-> user, status |-> 500, merged |-> <<>>, body |-> <<>>,
              calls |-> arcade.calls]
        ELSE [caller |-> user, status |-> 200, merged |-> tools,
              body |-> visible_tools(tools, user), calls |-> arcade.calls]

\* caps of the exploration
MaxFetches == 2
MaxInflight == 2

Brokers == [1..Len(ARCADE_TOOLS_CONFIG) -> BrokerResults]

\* GET / while app.state.TOOL_SERVERS is empty: the handler calls
\* get_tool_servers_data and is suspended at the await
GetToolsFetch ==
    \E user \in Users :
        /\ TOOL_SERVERS = <<>>
        /\ user \notin inflight
        /\ Cardinality(inflight) < MaxInflight
        /\ fetches < MaxFetches
        /\ inflight' = inflight \cup {user}
        /\ fetches' = fetches + 1
        /\ UNCHANGED <<TOOL_SERVERS, TOOL_SERVER_CONNECTIONS, ARCADE_TOOLS_CONFIG,
                       listing>>
        /\ UNCHANGED crudVars

\* the fetch returns: the handler stores the result and builds the catalog
GetToolsResume ==
    \E user \in inflight,
       reachable \in SUBSET (0..(Len(TOOL_SERVER_CONNECTIONS) - 1)),
       broker \in Brokers :
        /\ TOOL_SERVERS' = get_tool_servers_data(TOOL_SERVER_CONNECTIONS, reachable)
        /\ listing' = get_tools(store, TOOL_SERVERS', TOOL_SERVER_CONNECTIONS,
                                ARCADE_TOOLS_CONFIG, user, broker)
        /\ inflight' = inflight \ {user}
        /\ UNCHANGED <<TOOL_SERVER_CONNECTIONS, ARCADE_TOOLS_CONFIG, fetches>>
        /\ UNCHANGED crudVars

\* GET / while app.state.TOOL_SERVERS is set: no await, one step
GetToolsCached ==
    \E user \in Users, broker \in Brokers :
        /\ TOOL_SERVERS # <<>>
        /\ listing' = get_tools(store, TOOL_SERVERS, TOOL_SERVER_CONNECTIONS,
                                ARCADE_TOOLS_CONFIG, user, broker)
        /\ UNCHANGED <<TOOL_SERVERS, TOOL_SERVER_CONNECTIONS, ARCADE_TOOLS_CONFIG,
                       inflight, fetches>>
        /\ UNCHANGED crudVars

Apply(o) ==
    /\ store' = o.store
    /\ TOOLS' = o.TOOLS
    /\ last' = o.resp
    /\ UNCHANGED catalogVars

CreateNewTools ==
    \E user \in Users, form_id \in FormIds, content \in FormContents,
       access_control \in ACValues, dbOk \in BOOLEAN :
        Apply(create_new_tools(store, TOOLS, user, form_id, content,
                               access_control, dbOk))

GetToolsById ==
    \E user \in Users, id \in PathIds :
        Apply(get_tools_by_id(store, TOOLS, user, id))

UpdateToolsById ==
    \E user \in Users, id \in PathIds, content \in FormContents,
       access_control \in ACValues, dbOk \in BOOLEAN :
        Apply(update_tools_by_id(store, TOOLS, user, id, content,
                                 access_control, dbOk))

DeleteToolsById ==
    \E user \in Users, id \in PathIds, dbOk \in BOOLEAN :
        Apply(delete_tools_by_id(store, TOOLS, user, id, dbOk))

GetToolsValvesSpecById ==
    \E user \in Users, id \in PathIds :
        Apply(get_tools_valves_spec_by_id(store, TOOLS, user, id))

UpdateToolsValvesById ==
    \E user \in Users, id \in PathIds, form_data \in Payloads, dbOk \in BOOLEAN :
        Apply(update_tools_valves_by_id(store, TOOLS, user, id, form_data, dbOk))

EmptyMap == [x \in {} |-> None]

NoResponse == Response("none", "", <<>>, 0, "", "none")

NoListing == [caller |-> "", status |-> 0, merged |-> <<>>, body |-> <<>>,
              calls |-> <<>>]

\* a freshly started process with an empty tool table
Init ==
    /\ store = EmptyMap
    /\ TOOLS = EmptyMap
    /\ last = NoResponse
    /\ TOOL_SERVERS = <<>>
    /\ TOOL_SERVER_CONNECTIONS = <<>>
    /\ ARCADE_TOOLS_CONFIG = <<>>
    /\ inflight = {}
    /\ fetches = 0
    /\ listing = NoListing

Connection(access_control) == [url |-> "http://tools", config |-> [access_control |-> access_control]]

\* connection lists an administrator may have configured
ConnectionConfigs ==
    { <<>>,
      <<Connection([read |-> {}, write |-> {"u2"}]), Connection(None)>>,
      <<Connection(None), Connection([read |-> {"u2"}, write |-> {}])>> }

\* toolkit lists an administrator may have configured
ArcadeConfigs ==
    { <<>>, <<GmailKit, MathKit>>, <<OffKit, NotesKit>>, <<GmailKit, StaleKit>> }

StoredTool(st, user, id, access_control) ==
    insert_new_tool(st, user, id, "good", access_control,
                    load_tools_module_by_id(id, "good").frontmatter,
                    get_tools_specs(load_tools_module_by_id(id, "good").module).specs,
                    TRUE)

\* tool tables left by earlier registrations
CatalogStores ==
    { EmptyMap,
      StoredTool(EmptyMap, "u1", <<"a">>, None),
      StoredTool(StoredTool(EmptyMap, "u1", <<"a">>, [read |-> {}, write |-> {"u2"}]),
                 "root", <<"b", "1">>, [read |-> {"u2"}, write |-> {}]) }

\* a freshly started process over an existing tool table and configuration
InitCatalog ==
    /\ store \in CatalogStores
    /\ TOOLS = EmptyMap
    /\ last = NoResponse
    /\ TOOL_SERVERS = <<>>
    /\ TOOL_SERVER_CONNECTIONS \in ConnectionConfigs
    /\ ARCADE_TOOLS_CONFIG \in ArcadeConfigs
    /\ inflight = {}
    /\ fetches = 0
    /\ listing = NoListing

NextCatalog ==
    \/ GetToolsFetch
    \/ GetToolsResume
    \/ GetToolsCached

SpecCatalog == InitCatalog /\ [][NextCatalog]_vars

Next ==
    \/ CreateNewTools
    \/ GetToolsById
    \/ UpdateToolsById
    \/ DeleteToolsById
    \/ GetToolsValvesSpecById
    \/ UpdateToolsValvesById

Spec == Init /\ [][Next]_vars

----------------------------------------------------------------------------
(* Properties of the store handlers, stated on the request just answered   *)
(* (last') against the store before (store) and after (store') it.         *)

IdChars == Lowercase \cup Uppercase \cup Digits \cup {"_"}

\* s is not identifier syntax
BadSyntax(s) ==
    \/ s = <<>>
    \/ s[1] \in Digits
    \/ \E i \in 1..Len(s) : s[i] \notin IdChars

\* user may register tools
MayCreate(user) == user = "root" \/ user \in USER_PERMISSIONS.workspace_tools

\* user is admin, owner of the record id, or granted `type` on it
MayAccess(user, st, id, type) ==
    /\ id \in DOMAIN st
    /\ \/ user = "root"
       \/ st[id].user_id = user
       \/ has_access(user, type, st[id].access_control)

\* C2: a create by a caller allowed to create is answered 400 when the
\* submitted id is not identifier syntax and when its lowercased form is
\* already in the store, and in both cases the store is left as it was.
C2_RejectedIdKeepsStore ==
    [][ ( /\ last'.op = "create"
          /\ MayCreate(last'.caller)
          /\ (BadSyntax(last'.id) \/ lower(last'.id) \in DOMAIN store) )
        => (last'.status = 400 /\ store' = store) ]_vars

\* a create of "A" was refused because "a" is registered
C2_Witness ==
    /\ last.op = "create"
    /\ last.id = <<"A">>
    /\ last.detail = "ID_TAKEN"
    /\ <<"a">> \in DOMAIN store

\* C3: a create or update that ends in 400 because the source does not load,
\* its specs cannot be derived or the store write fails leaves the store as it
\* was.
C3_FailedWriteKeepsStore ==
    [][ ( /\ last'.op \in {"create", "update"}
          /\ last'.status = 400
          /\ last'.detail \in {"LOAD", "SPECS", "WRITE"} )
        => store' = store ]_vars

\* an update of a registered tool failed on its specs and the record still
\* holds the earlier content
C3_Witness ==
    /\ last.op = "update"
    /\ last.status = 400
    /\ last.detail = "SPECS"
    /\ last.id \in DOMAIN store
    /\ store[last.id].content # "nospecs"

\* C4 as stated: an authorized delete of a present id returns true and the id
\* is gone afterwards; of an absent id it returns a boolean, not an error.
C4_DeleteAlwaysBoolean ==
    [][ last'.op = "delete" =>
          /\ MayAccess(last'.caller, store, last'.id, "write")
               => (last'.body = "true" /\ last'.id \notin DOMAIN store')
          /\ (last'.id \notin DOMAIN store /\ last'.caller = "root")
               => (last'.status = 200 /\ last'.body \in {"true", "false"}) ]_vars

\* C4 amended: an authorized delete of a present id returns the store's
\* outcome, true with the id gone afterwards or false with the store as it
\* was; a delete of an absent id is answered 401 and changes nothing.
C4_DeleteOutcome ==
    [][ last'.op = "delete" =>
          /\ MayAccess(last'.caller, store, last'.id, "write")
               => /\ last'.status = 200
                  /\ \/ last'.body = "true" /\ last'.id \notin DOMAIN store'
                     \/ last'.body = "false" /\ store' = store
          /\ last'.id \notin DOMAIN store
               => (last'.status = 401 /\ last'.detail = "NOT_FOUND"
                   /\ store' = store /\ TOOLS' = TOOLS) ]_vars

\* a delete by the tool's non-admin owner returned true and the id is gone
C4_Witness ==
    /\ last.op = "delete"
    /\ last.caller = "u1"
    /\ last.body = "true"
    /\ last.id \notin DOMAIN store

\* C5: GET /id/{id} answers with the record when the caller is admin, owner
\* or has read access, and with 401 in every other case, whether or not the
\* id exists.
C5_UnreadableIs401 ==
    [][ last'.op = "get" =>
          IF MayAccess(last'.caller, store, last'.id, "read")
          THEN last'.status = 200 /\ last'.body = "record"
          ELSE last'.status = 401 ]_vars

\* C6: an update or delete by a caller who is not the owner, not admin and
\* has no write grant is answered 401 and leaves the store and the module
\* cache as they were.
C6_OnlyWritersModify ==
    [][ ( /\ last'.op \in {"update", "delete"}
          /\ ~MayAccess(last'.caller, store, last'.id, "write") )
        => (last'.status = 401 /\ store' = store /\ TOOLS' = TOOLS) ]_vars

\* u2 holds only the read grant on a registered tool and was refused
C6_Witness ==
    /\ last.op \in {"update", "delete"}
    /\ last.caller = "u2"
    /\ last.status = 401
    /\ last.detail = "UNAUTHORIZED"
    /\ last.id \in DOMAIN store
    /\ has_access("u2", "read", store[last.id].access_control)

\* C10: every key of the module cache is the id of a stored record, and the
\* cached module is the one loaded from that record's content.
C10_CacheMirrorsStore ==
    \A id \in DOMAIN TOOLS :
        /\ id \in DOMAIN store
        /\ TOOLS[id].src = store[id].content

----------------------------------------------------------------------------
(* Properties of the catalog, stated on the latest completed listing. *)

\* C1: in a listing returned to a caller who is not admin every entry is
\* owned by the caller or readable by the caller under its access_control;
\* an admin caller receives the merged list as it was built.
C1_ListingFiltered ==
    listing.status = 200 =>
        IF listing.caller # "root"
        THEN \A k \in 1..Len(listing.body) :
                \/ listing.body[k].user_id = listing.caller
                \/ has_access(listing.caller, "read", listing.body[k].access_control)
        ELSE listing.body = listing.merged

\* u2 received some entries while others were withheld
C1_Witness ==
    /\ listing.status = 200
    /\ listing.caller = "u2"
    /\ Len(listing.body) > 0
    /\ Len(listing.body) < Len(listing.merged)

\* C7: get_tool_servers_data is called at most once in a process lifetime:
\* once a listing request has been answered and none is in flight, no later
\* request fetches the registry or changes the cached value.
C7_FetchedOnce ==
    [][ (listing.status # 0 /\ inflight = {})
        => (fetches' = fetches /\ TOOL_SERVERS' = TOOL_SERVERS) ]_vars

\* C8: the entry server:<i> of a listing carries the access_control of
\* connection i of TOOL_SERVER_CONNECTIONS.
C8_ServerAccessControl ==
    \A k \in 1..Len(listing.merged), i \in 0..(Len(TOOL_SERVER_CONNECTIONS) - 1) :
        listing.merged[k].id = "server:" \o Digit(i) =>
            listing.merged[k].access_control
                = TOOL_SERVER_CONNECTIONS[i + 1].config.access_control

\* some member tool of the kit names a provider id, and some a provider type
NamesProvider(tool_kit) ==
    LET auths == { t.requirements.authorization :
                     t \in { ARCADE_TOOLS[i] : i \in
                               { j \in 1..Len(ARCADE_TOOLS) :
                                   /\ \E n \in 1..Len(tool_kit.tools) :
                                        tool_kit.tools[n] = ARCADE_TOOLS[j].qualified_name
                                   /\ ARCADE_TOOLS[j].requirements # None } } }
    IN  /\ \E a \in auths : a.provider_id # ""
        /\ \E a \in auths : a.provider_type # ""

\* the listing's authorize calls and arcade entries, where Expected(kit) is
\* the number of authorize calls an enabled toolkit is to cause
ArcadePart(Expected(_)) ==
    listing.status = 200 =>
        \A k \in 1..Len(ARCADE_TOOLS_CONFIG) :
            LET tool_kit == ARCADE_TOOLS_CONFIG[k]
                calls    == { j \in 1..Len(listing.calls) :
                                listing.calls[j].idx = k - 1 }
                entries  == { j \in 1..Len(listing.merged) :
                                listing.merged[j].id = "arcade:" \o Digit(k - 1) }
            IN  IF ~tool_kit.enabled
                THEN calls = {} /\ entries = {}
                ELSE /\ Cardinality(calls) = Expected(tool_kit)
                     /\ Cardinality(entries) = 1
                     /\ \A j \in entries :
                          LET meta == listing.merged[j].meta
                          IN  IF \A c \in calls : listing.calls[c].result = None
                              THEN meta.auth_completed = TRUE /\ meta.auth_url = NullUrl
                              ELSE \A c \in calls :
                                     /\ meta.auth_completed
                                          = (listing.calls[c].result.status = "completed")
                                     /\ meta.auth_url = listing.calls[c].result.url

\* C9 as stated: a listing issues exactly one authorize call for every enabled
\* toolkit and none for a disabled one, and each enabled toolkit has exactly
\* one entry arcade:<idx> reflecting the broker's answer.
C9_OneCallPerEnabledKit == ArcadePart(LAMBDA tool_kit : 1)

\* C9 amended: a listing that returns issues exactly one authorize call for an
\* enabled toolkit whose member tools name a provider id and a provider type,
\* and none for any other toolkit; each enabled toolkit has exactly one entry
\* arcade:<idx>, with auth_completed true and no URL when no call was made or
\* the broker returned nothing, and the broker's status and URL otherwise.
C9_CallsWhenProviderNamed ==
    ArcadePart(LAMBDA tool_kit : IF NamesProvider(tool_kit) THEN 1 ELSE 0)

\* a listing over one toolkit that was authorized through the broker, still
\* pending, and one that needed no call
C9_Witness ==
    /\ listing.status = 200
    /\ Len(listing.calls) = 1
    /\ listing.calls[1].result # None
    /\ listing.calls[1].result.status = "pending"
    /\ \E j \in 1..Len(listing.merged) : listing.merged[j].id = "arcade:1"

====
